---- MODULE Spec2Model ----
(***************************************************************************)
(* Model of exe-common/src/sync.rs: net_sync, the synchronisation of a     *)
(* local block store (tags, loose blocks, epoch packs) with the chain of   *)
(* a remote peer.  One session of net_sync is a sequence of steps, each    *)
(* step being one durable write of the code, so that a process that is     *)
(* killed between two writes is a reachable state.                         *)
(***************************************************************************)
EXTENDS Integers, Sequences, FiniteSets, TLC

\* ------------------------------------------------------------------------
\* Bounds of the model
\* ------------------------------------------------------------------------
\* last epoch of the remote chain (epochs 0..MaxEpoch)
MaxEpoch == 2
\* last slot of an epoch: a fully formed epoch is a genesis block and a
\* block in every slot 0..MaxSlot
MaxSlot == 1
\* the longest list of configured peers (cfg.peers)
MaxPeers == 4

\* ------------------------------------------------------------------------
\* Configuration (net::Config)
\* ------------------------------------------------------------------------
\* net_cfg.epoch_start
epoch_start == 0
\* the stability depths net_cfg.k: the smallest, and the largest that is
\* smaller than the number of blocks of an epoch (comment of lines 44-46)
KSet == {0, MaxSlot}
\* EpochId is an unsigned machine integer: a subtraction that underflows
\* wraps to the top of its range (or panics in a build with overflow checks).
\* The range is scaled down to the integers of the model checker; what
\* matters is that the wrapped value is above every epoch of the chain.
EpochIdModulus == 2^30

\* Option::None of a block hash, of a pack hash, of cur_epoch_state
NoHash == 0
NoPack == <<>>
None == <<>>
Some(x) == <<x>>

Range(s) == {s[i] : i \in 1..Len(s)}

\* ------------------------------------------------------------------------
\* The remote chain: the dates of its blocks, in chain order.  The hash of
\* a block is its position in the chain.
\* ------------------------------------------------------------------------
\* BlockDate::Genesis(epoch) | BlockDate::Normal(EpochSlotId{epoch, slotid})
Genesis(e) == [kind |-> "Genesis", epoch |-> e, slotid |-> 0]
Normal(e, s) == [kind |-> "Normal", epoch |-> e, slotid |-> s]

\* BlockDate::is_genesis
is_genesis(date) == date.kind = "Genesis"
\* BlockDate::get_epochid
get_epochid(date) == date.epoch

\* a fully formed epoch: its genesis block, then a block in every slot
FullEpoch(e) == <<Genesis(e)>> \o [s \in 1..(MaxSlot + 1) |-> Normal(e, s - 1)]

RECURSIVE FullEpochs(_, _)
\* the fully formed epochs from .. to, one after the other
FullEpochs(from, to) ==
    IF from > to THEN <<>> ELSE FullEpoch(from) \o FullEpochs(from + 1, to)

\* a chain of fully formed epochs
DenseChain == FullEpochs(epoch_start, MaxEpoch)

\* ------------------------------------------------------------------------
\* State
\* ------------------------------------------------------------------------
VARIABLES
    chain,            \* the peer: the dates of the blocks of its chain
    k,                \* net_cfg.k, the stability depth
    peers,            \* net_cfg.peers, the configured peers in their order
    net,              \* the peer net_sync talks to: None before a peer is
                      \* selected, or Some(Peer)
    tag_HEAD,         \* storage: the tag HEAD, a block hash or NoHash
    tag_EPOCH,        \* storage: the tags EPOCH_<n>, a pack hash or NoPack
    blobs,            \* storage: the hashes of the loose blocks
    packs,            \* storage: the finalized pack files; a pack hash is
                      \* the hash of the content, here the sequence of blocks
    indexes,          \* storage: the pack hashes whose index file is permanent
    epochs,           \* storage: epoch_create's epoch -> pack hash association
    refpacks,         \* storage: the epochs whose reference pack is built
    net_tip,          \* the peer's tip block (0 before the first session)
    pc,               \* position of the process in net_sync
    tip,              \* net_sync: tip (the block of the BlockRef)
    our_tip,          \* net_sync: our_tip, <<block, inclusive>>
    first_unstable_epoch,
    cur_epoch_state,  \* net_sync: None or Some([epoch_id, writer])
    last_block,       \* net_sync: last_block, a block hash or NoHash
    cur,              \* the block the callback of get_blocks is running on
    warned,           \* the session logged "HEAD tag refers to non-existent block"
    hist              \* history of the session, read by the properties only

storage == <<tag_HEAD, tag_EPOCH, blobs, packs, indexes, epochs, refpacks>>
locals == <<tip, our_tip, first_unstable_epoch, cur_epoch_state, last_block,
            cur, warned>>
config == <<chain, k, peers, net>>
vars == <<config, storage, net_tip, pc, locals, hist>>

Blocks == 1..Len(chain)
Epochs == {chain[b].epoch : b \in Blocks}

\* block.get_header().get_blockdate() of the block with hash b
BlockDateOf(b) == chain[b]

\* the block of net_cfg.genesis: the genesis block of epoch_start
GenesisBlock == 1

\* the blocks of epoch n in chain order
EpochBlocks(n) ==
    LET first == CHOOSE b \in Blocks :
                    /\ chain[b].epoch = n
                    /\ \A c \in Blocks : chain[c].epoch = n => b <= c
        count == Cardinality({b \in Blocks : chain[b].epoch = n})
    IN [i \in 1..count |-> first + i - 1]
LastBlockOfEpoch(n) == EpochBlocks(n)[Len(EpochBlocks(n))]

\* the positions of a running session
Running == {"finalize", "index", "epochtag", "epoch_create",
            "refpack", "checkpoint", "route", "final"}
\* the positions of a session that is over
Over == {"idle", "done", "panicked", "killed"}

\* storage::block_read: a block is found as a loose block, or in a pack
\* through the pack's index file
block_read(h) ==
    \/ h \in blobs
    \/ \E p \in indexes : p \in packs /\ h \in Range(p)

\* the comparison of the slot with k, reversed
Offset_Reversed(date, depth) ==
    IF date.kind = "Genesis" THEN 1
    ELSE IF date.slotid >= depth THEN 1 ELSE 0

\* lines 48-51: the offset subtracted from the epoch of the tip
Offset(date, depth) ==
    IF date.kind = "Genesis" THEN 1
    ELSE IF date.slotid <= depth THEN 1 ELSE 0

\* lines 47-51: first_unstable_epoch, as the machine computes it when the
\* subtraction wraps
FirstUnstableEpoch(date, depth) ==
    (get_epochid(date) - Offset(date, depth)) % EpochIdModulus

\* lines 47-51: the subtraction underflows
Underflows(date, depth) == get_epochid(date) < Offset(date, depth)

\* a genesis reference that is fetched after, not from
genesis_ref_Exclusive == <<GenesisBlock, FALSE>>

\* line 24: genesis_ref, <<block, inclusive>>
genesis_ref == <<GenesisBlock, TRUE>>

\* a resume point that trusts the HEAD tag without reading the block
OurTip_Unchecked(head) ==
    IF head = NoHash THEN genesis_ref ELSE <<head, FALSE>>

\* lines 26-40: our_tip, <<block, inclusive>>
OurTip(head) ==
    IF head = NoHash THEN genesis_ref
    ELSE IF ~block_read(head) THEN genesis_ref
    ELSE <<head, FALSE>>

\* line 31: the warning of a HEAD tag that names no stored block
Warns(head) == head # NoHash /\ ~block_read(head)

\* get_blocks: the first block of the stream from <<from, inclusive>>
FirstDelivered(from) == IF from[2] THEN from[1] ELSE from[1] + 1

\* ------------------------------------------------------------------------
\* get_http_peer, get_native_peer (lines 126-154)
\* ------------------------------------------------------------------------
\* a configured peer: its name and the transport of its address
NamedPeer(n, kind) == [name |-> n, kind |-> kind]
\* the transports of a configured peer
Transports == {"http", "native"}
\* the parameter blockchain of the two functions
Blockchains == {"mainnet", "testnet"}

\* peer.is_http(), peer.is_native()
is_http(peer) == peer.kind = "http"
is_native(peer) == peer.kind = "native"
Matches(peer, kind) == IF kind = "http" THEN is_http(peer) ELSE is_native(peer)

RECURSIVE FindPeer_Last(_, _, _)
\* a loop that keeps the last peer that matches
FindPeer_Last(ps, kind, i) ==
    IF i > Len(ps) THEN 0
    ELSE LET later == FindPeer_Last(ps, kind, i + 1)
         IN IF later # 0 THEN later
            ELSE IF Matches(ps[i], kind) THEN i ELSE 0

RECURSIVE FindPeer(_, _, _)
\* lines 127-136, 142-151: the loop over cfg.peers.iter() from position i,
\* which returns at the first peer that matches; 0 when the loop ends
FindPeer(ps, kind, i) ==
    IF i > Len(ps) THEN 0
    ELSE IF Matches(ps[i], kind) THEN i
    ELSE FindPeer(ps, kind, i + 1)

\* lines 129-134: Peer::new(blockchain, name, peer, protocol_magic)
PeerNew(blockchain, peer) ==
    [blockchain |-> blockchain, name |-> peer.name, kind |-> peer.kind]

\* the lists of configured peers: every transport at every position, the
\* name of a peer being its position
PeerLists ==
    UNION {[1..n -> Transports] : n \in 0..MaxPeers}
ConfiguredPeers(kinds) == [i \in 1..Len(kinds) |-> NamedPeer(i, kinds[i])]

\* the body of get_http_peer and get_native_peer for the transport kind:
\* Peer::new(..).unwrap() of the first peer that matches returns the peer or
\* panics; without a peer that matches, line 138 or 153 panics
get_peer(kind) ==
    /\ pc = "idle"
    /\ net = None
    /\ \E blockchain \in Blockchains :
        LET i == FindPeer(peers, kind, 1)
        IN IF i = 0
           THEN /\ pc' = "panicked"
                /\ net' = None
           ELSE \/ /\ net' = Some(PeerNew(blockchain, peers[i]))
                   /\ pc' = "idle"
                \/ /\ net' = None
                   /\ pc' = "panicked"
    /\ UNCHANGED <<chain, k, peers, storage, net_tip, locals, hist>>

\* lines 126-139
get_http_peer == get_peer("http")
\* lines 141-154
get_native_peer == get_peer("native")

\* the peer of a configuration with one native peer
DefaultPeers == ConfiguredPeers(<<"native">>)
DefaultNet == Some(PeerNew("mainnet", DefaultPeers[1]))

StorageEmpty ==
    /\ tag_HEAD = NoHash /\ blobs = {} /\ packs = {} /\ indexes = {}
    /\ refpacks = {}
    /\ \A n \in Epochs : tag_EPOCH[n] = NoPack /\ epochs[n] = NoPack

NoLocals ==
    /\ tip = 0 /\ our_tip = <<0, FALSE>> /\ first_unstable_epoch = 0
    /\ cur_epoch_state = None /\ last_block = NoHash /\ cur = 0
    /\ warned = FALSE

\* the memory of the process is gone
ResetLocals ==
    /\ tip' = 0 /\ our_tip' = <<0, FALSE>> /\ first_unstable_epoch' = 0
    /\ cur_epoch_state' = None /\ last_block' = NoHash /\ cur' = 0
    /\ warned' = FALSE

\* startEmpty: the session started on an empty store; headAtStart: HEAD when
\* the session started; rerun: the session before ran to completion and the
\* tip is the same; the counters count what the session did;
\* abandoned: the epoch whose accumulator was lost when a session was last
\* terminated, as an Option; flushed: the epoch_id of every writer.finalize()
\* of the session, in order; tagged: the epochs whose EPOCH_<n> the session
\* wrote, in order
NoHist == [startEmpty |-> FALSE, headAtStart |-> NoHash, rerun |-> FALSE,
           delivered |-> 0, finalizations |-> 0, blobWrites |-> 0,
           tagWrites |-> 0, abandoned |-> None,
           flushed |-> <<>>, tagged |-> <<>>]

Init ==
    /\ chain = DenseChain
    /\ k \in KSet
    /\ peers = DefaultPeers
    /\ net = DefaultNet
    /\ tag_HEAD = NoHash
    /\ tag_EPOCH = [n \in Epochs |-> NoPack]
    /\ blobs = {}
    /\ packs = {}
    /\ indexes = {}
    /\ epochs = [n \in Epochs |-> NoPack]
    /\ refpacks = {}
    /\ net_tip = 0
    /\ pc = "idle"
    /\ NoLocals
    /\ hist = NoHist

\* ------------------------------------------------------------------------
\* net_sync, lines 12-56: the start of a session
\* ------------------------------------------------------------------------
SessionHist(t) ==
    [NoHist EXCEPT !.startEmpty = StorageEmpty,
                   !.headAtStart = tag_HEAD,
                   !.rerun = (pc = "done" /\ tip = t),
                   !.abandoned = hist.abandoned]

\* the peer's tip never moves back
TipChoices == {t \in Blocks : t >= net_tip}

\* lines 62-63: the callback starts with a flush
FlushNeeded(date, state) == is_genesis(date) /\ state # None

\* get_blocks, line 58: the callback is entered with the block next, or the
\* stream is over when next is past the tip (line 105)
Fetch(next, to, state) ==
    IF next > to THEN "final"
    ELSE IF FlushNeeded(BlockDateOf(next), state) THEN "finalize"
    ELSE "route"

\* lines 14-58.  When tip.epoch - offset underflows, this is the build
\* without overflow checks: the subtraction wraps
StartSession ==
    /\ pc \in Over
    /\ \E t \in TipChoices :
        LET from == OurTip(tag_HEAD)
            first == FirstDelivered(from)
        IN /\ net_tip' = t
           /\ tip' = t
           /\ first_unstable_epoch' = FirstUnstableEpoch(BlockDateOf(t), k)
           /\ our_tip' = from
           /\ cur' = IF first <= t THEN first ELSE 0
           /\ pc' = Fetch(first, t, None)
           /\ hist' = [SessionHist(t) EXCEPT
                         !.delivered = IF first <= t THEN 1 ELSE 0]
    /\ warned' = Warns(tag_HEAD)
    /\ cur_epoch_state' = None
    /\ last_block' = NoHash
    /\ UNCHANGED <<config, storage>>

\* lines 47-51 when tip.epoch - offset underflows, in a build with overflow
\* checks: the process panics before any block is fetched
StartSessionOverflowPanics ==
    /\ pc \in Over
    /\ \E t \in TipChoices :
        /\ Underflows(BlockDateOf(t), k)
        /\ net_tip' = t
    /\ pc' = "panicked"
    /\ ResetLocals
    /\ hist' = [NoHist EXCEPT !.abandoned = hist.abandoned]
    /\ UNCHANGED <<config, storage>>

\* ------------------------------------------------------------------------
\* net_sync, lines 58-103: get_blocks and its callback
\* ------------------------------------------------------------------------
\* a flush that publishes EPOCH_<n> before the index is permanent
AfterFlushStep_TagFirst(step) ==
    CASE step = "finalize" -> "epochtag"
      [] step = "epochtag" -> "index"
      [] step = "index" -> "epoch_create"
      [] step = "epoch_create" -> "refpack"
      [] step = "refpack" -> "checkpoint"
      [] step = "checkpoint" -> "route"

\* the order of the steps of the flush, lines 64-77
AfterFlushStep(step) ==
    CASE step = "finalize" -> "index"
      [] step = "index" -> "epochtag"
      [] step = "epochtag" -> "epoch_create"
      [] step = "epoch_create" -> "refpack"
      [] step = "refpack" -> "checkpoint"
      [] step = "checkpoint" -> "route"

\* line 64: writer.finalize() renders the pack file permanent and returns
\* the pack hash
packhash == cur_epoch_state[1].writer
\* line 63: epoch_id
epoch_id == cur_epoch_state[1].epoch_id

FlushFinalize ==
    /\ pc = "finalize"
    /\ packs' = packs \cup {packhash}
    /\ pc' = AfterFlushStep(pc)
    /\ hist' = [hist EXCEPT !.finalizations = @ + 1,
                            !.flushed = Append(@, epoch_id)]
    /\ UNCHANGED <<config, tag_HEAD, tag_EPOCH, blobs, indexes, epochs, refpacks,
                   net_tip, locals>>

\* lines 65-66: create_index and render_permanent
FlushIndex ==
    /\ pc = "index"
    /\ indexes' = indexes \cup {packhash}
    /\ pc' = AfterFlushStep(pc)
    /\ UNCHANGED <<config, tag_HEAD, tag_EPOCH, blobs, packs, epochs, refpacks,
                   net_tip, locals, hist>>

\* line 69: tag::write of EPOCH_<epoch_id>
FlushEpochTag ==
    /\ pc = "epochtag"
    /\ tag_EPOCH' = [tag_EPOCH EXCEPT ![epoch_id] = packhash]
    /\ pc' = AfterFlushStep(pc)
    /\ hist' = [hist EXCEPT !.tagWrites = @ + 1,
                            !.tagged = Append(@, epoch_id)]
    /\ UNCHANGED <<config, tag_HEAD, blobs, packs, indexes, epochs, refpacks,
                   net_tip, locals>>

\* line 71: epoch_create
FlushEpochCreate ==
    /\ pc = "epoch_create"
    /\ epochs' = [epochs EXCEPT ![epoch_id] = packhash]
    /\ pc' = AfterFlushStep(pc)
    /\ UNCHANGED <<config, tag_HEAD, tag_EPOCH, blobs, packs, indexes, refpacks,
                   net_tip, locals, hist>>

\* line 73: refpack_epoch_pack
FlushRefpack ==
    /\ pc = "refpack"
    /\ refpacks' = refpacks \cup {epoch_id}
    /\ pc' = AfterFlushStep(pc)
    /\ UNCHANGED <<config, tag_HEAD, tag_EPOCH, blobs, packs, indexes, epochs,
                   net_tip, locals, hist>>

\* line 77: the checkpoint of HEAD; last_block is Some here, because a block
\* was appended to the writer
FlushCheckpoint ==
    /\ pc = "checkpoint"
    /\ last_block # NoHash
    /\ tag_HEAD' = last_block
    /\ pc' = AfterFlushStep(pc)
    /\ hist' = [hist EXCEPT !.tagWrites = @ + 1]
    /\ UNCHANGED <<config, tag_EPOCH, blobs, packs, indexes, epochs, refpacks,
                   net_tip, locals>>

\* a comparison that takes the first unstable epoch for a stable one
Unstable_Strict(date, fue) == get_epochid(date) > fue

\* line 84: the block is not part of a stable epoch
Unstable(date, fue) == get_epochid(date) >= fue

\* a genesis block that starts a pack only when no writer is there
WriterFor_KeepOpen(date, state) ==
    IF is_genesis(date) /\ state = None
    THEN Some([epoch_id |-> get_epochid(date), writer |-> <<>>])
    ELSE state

\* lines 93-95: the writer the block is appended to
WriterFor(date, state) ==
    IF is_genesis(date)
    THEN Some([epoch_id |-> get_epochid(date), writer |-> <<>>])
    ELSE state

\* a routing that checkpoints HEAD after every loose block
RouteLoose_Checkpoints ==
    /\ pc = "route"
    /\ Unstable(BlockDateOf(cur), first_unstable_epoch)
    /\ blobs' = blobs \cup {cur}
    /\ tag_HEAD' = cur
    /\ last_block' = cur
    /\ pc' = Fetch(cur + 1, tip, cur_epoch_state)
    /\ cur' = IF cur + 1 <= tip THEN cur + 1 ELSE cur
    /\ hist' = [hist EXCEPT !.blobWrites = @ + 1,
                            !.delivered = IF cur + 1 <= tip THEN @ + 1 ELSE @]
    /\ UNCHANGED <<config, tag_EPOCH, packs, indexes, epochs, refpacks,
                   net_tip, tip, our_tip, first_unstable_epoch,
                   cur_epoch_state, warned>>

\* lines 84-89 and 102: the block is written as a loose block
RouteLoose ==
    /\ pc = "route"
    /\ Unstable(BlockDateOf(cur), first_unstable_epoch)
    /\ blobs' = blobs \cup {cur}
    /\ last_block' = cur
    /\ pc' = Fetch(cur + 1, tip, cur_epoch_state)
    /\ cur' = IF cur + 1 <= tip THEN cur + 1 ELSE cur
    /\ hist' = [hist EXCEPT !.blobWrites = @ + 1,
                            !.delivered = IF cur + 1 <= tip THEN @ + 1 ELSE @]
    /\ UNCHANGED <<config, tag_HEAD, tag_EPOCH, packs, indexes, epochs, refpacks,
                   net_tip, tip, our_tip, first_unstable_epoch,
                   cur_epoch_state, warned>>

\* a routing where every genesis block starts a pack, whatever its epoch
RoutePack_GenesisAlwaysPacks ==
    /\ pc = "route"
    /\ \/ ~Unstable(BlockDateOf(cur), first_unstable_epoch)
       \/ is_genesis(BlockDateOf(cur))
    /\ LET state == WriterFor(BlockDateOf(cur), cur_epoch_state)
       IN /\ state # None
          /\ cur_epoch_state' =
                Some([state[1] EXCEPT !.writer = Append(@, cur)])
    /\ last_block' = cur
    /\ pc' = Fetch(cur + 1, tip, cur_epoch_state')
    /\ cur' = IF cur + 1 <= tip THEN cur + 1 ELSE cur
    /\ hist' = [hist EXCEPT
                  !.delivered = IF cur + 1 <= tip THEN @ + 1 ELSE @]
    /\ UNCHANGED <<config, storage, net_tip, tip, our_tip, first_unstable_epoch,
                   warned>>

\* lines 90-102: the block is appended to the pack of its epoch
RoutePack ==
    /\ pc = "route"
    /\ ~Unstable(BlockDateOf(cur), first_unstable_epoch)
    /\ LET state == WriterFor(BlockDateOf(cur), cur_epoch_state)
       IN /\ state # None
          /\ cur_epoch_state' =
                Some([state[1] EXCEPT !.writer = Append(@, cur)])
    /\ last_block' = cur
    /\ pc' = Fetch(cur + 1, tip, cur_epoch_state')
    /\ cur' = IF cur + 1 <= tip THEN cur + 1 ELSE cur
    /\ hist' = [hist EXCEPT
                  !.delivered = IF cur + 1 <= tip THEN @ + 1 ELSE @]
    /\ UNCHANGED <<config, storage, net_tip, tip, our_tip, first_unstable_epoch,
                   warned>>

\* line 98: cur_epoch_state is None, the unwrap panics
RoutePanics ==
    /\ pc = "route"
    /\ ~Unstable(BlockDateOf(cur), first_unstable_epoch)
    /\ WriterFor(BlockDateOf(cur), cur_epoch_state) = None
    /\ pc' = "panicked"
    /\ ResetLocals
    /\ UNCHANGED <<config, storage, net_tip, hist>>

\* a stream end that finalizes the accumulator that is still open
Final_FinalizesOpenPack ==
    /\ pc = "final"
    /\ IF last_block # NoHash
       THEN /\ tag_HEAD' = last_block
            /\ hist' = [hist EXCEPT !.tagWrites = @ + 1]
       ELSE UNCHANGED <<tag_HEAD, hist>>
    /\ packs' = IF cur_epoch_state # None
                THEN packs \cup {cur_epoch_state[1].writer} ELSE packs
    /\ pc' = "done"
    /\ UNCHANGED <<config, tag_EPOCH, blobs, indexes, epochs, refpacks,
                   net_tip, locals>>

\* lines 105-109: the stream is over
Final ==
    /\ pc = "final"
    /\ IF last_block # NoHash
       THEN /\ tag_HEAD' = last_block
            /\ hist' = [hist EXCEPT !.tagWrites = @ + 1]
       ELSE UNCHANGED <<tag_HEAD, hist>>
    /\ pc' = "done"
    /\ UNCHANGED <<config, tag_EPOCH, blobs, packs, indexes, epochs, refpacks,
                   net_tip, locals>>

\* ------------------------------------------------------------------------
\* The ends of a session that are not its completion
\* ------------------------------------------------------------------------
\* the epoch whose open accumulator is lost before any pack of the epoch
\* was finalized
Abandoned ==
    IF /\ cur_epoch_state # None
       /\ \A p \in packs : p[1] \notin Range(cur_epoch_state[1].writer)
    THEN Some(cur_epoch_state[1].epoch_id) ELSE hist.abandoned

\* the process is terminated between two steps; what is in memory is lost
Kill ==
    /\ pc \in Running
    /\ pc' = "killed"
    /\ ResetLocals
    /\ hist' = [NoHist EXCEPT !.abandoned = Abandoned]
    /\ UNCHANGED <<config, storage, net_tip>>

\* a failure handler that saves the position of the stream before it gives up
StepFails_SavesHead ==
    /\ \/ pc \in {"index", "refpack"}
       \/ pc = "route" /\ Unstable(BlockDateOf(cur), first_unstable_epoch)
    /\ pc' = "panicked"
    /\ tag_HEAD' = cur
    /\ ResetLocals
    /\ UNCHANGED <<config, tag_EPOCH, blobs, packs, indexes, epochs, refpacks,
                   net_tip, hist>>

\* lines 66, 73, 89: a failure of the storage, unwrapped
StepFails ==
    /\ \/ pc \in {"index", "refpack"}
       \/ pc = "route" /\ Unstable(BlockDateOf(cur), first_unstable_epoch)
    /\ pc' = "panicked"
    /\ ResetLocals
    /\ UNCHANGED <<config, storage, net_tip, hist>>

\* lines 14, 35: get_tip or the decoding of the HEAD block fails, unwrapped
StartFails ==
    /\ pc \in Over
    /\ pc' = "panicked"
    /\ ResetLocals
    /\ hist' = [NoHist EXCEPT !.abandoned = hist.abandoned]
    /\ UNCHANGED <<config, storage, net_tip>>

Next ==
    \/ StartSession
    \/ StartSessionOverflowPanics
    \/ StartFails
    \/ FlushFinalize
    \/ FlushIndex
    \/ FlushEpochTag
    \/ FlushEpochCreate
    \/ FlushRefpack
    \/ FlushCheckpoint
    \/ RouteLoose
    \/ RoutePack
    \/ RoutePanics
    \/ Final
    \/ Kill
    \/ StepFails

\* sessions against a chain of fully formed epochs, for every depth of KSet
Spec == Init /\ [][Next]_vars

\* ------------------------------------------------------------------------
\* The end-to-end scenario: epochs 0, 1, 2 fully formed plus 3 blocks into
\* epoch 3, k = 10
\* ------------------------------------------------------------------------
E2EChain ==
    FullEpochs(0, 2) \o <<Genesis(3), Normal(3, 1), Normal(3, 2), Normal(3, 3)>>

InitE2E ==
    /\ chain = E2EChain
    /\ k = 10
    /\ peers = DefaultPeers
    /\ net = DefaultNet
    /\ tag_HEAD = NoHash
    /\ tag_EPOCH = [n \in Epochs |-> NoPack]
    /\ blobs = {}
    /\ packs = {}
    /\ indexes = {}
    /\ epochs = [n \in Epochs |-> NoPack]
    /\ refpacks = {}
    /\ net_tip = 0
    /\ pc = "idle"
    /\ NoLocals
    /\ hist = NoHist

SpecE2E == InitE2E /\ [][Next]_vars

\* ------------------------------------------------------------------------
\* The selection of the peer, for every list of configured peers
\* ------------------------------------------------------------------------
InitPeers ==
    /\ chain = DenseChain
    /\ k \in KSet
    /\ \E kinds \in PeerLists : peers = ConfiguredPeers(kinds)
    /\ net = None
    /\ tag_HEAD = NoHash
    /\ tag_EPOCH = [n \in Epochs |-> NoPack]
    /\ blobs = {}
    /\ packs = {}
    /\ indexes = {}
    /\ epochs = [n \in Epochs |-> NoPack]
    /\ refpacks = {}
    /\ net_tip = 0
    /\ pc = "idle"
    /\ NoLocals
    /\ hist = NoHist

NextPeers ==
    \/ get_http_peer
    \/ get_native_peer

SpecPeers == InitPeers /\ [][NextPeers]_vars

TypeOK ==
    /\ tag_HEAD \in Blocks \cup {NoHash}
    /\ blobs \subseteq Blocks
    /\ pc \in Running \cup Over
    /\ last_block \in Blocks \cup {NoHash}
    /\ cur \in Blocks \cup {0}
    /\ pc \in Running \ {"final"} => cur \in Blocks

\* ------------------------------------------------------------------------
\* Properties
\* ------------------------------------------------------------------------
\* a session is in the callback of get_blocks, on the block cur
InCallback == pc \in Running \ {"final"}
\* the epoch of the block the callback runs on
CurEpoch == chain[cur].epoch
\* the epoch a finalized pack was built for: the epoch of its first block
PackEpoch(p) == chain[p[1]].epoch

\* C1: whenever a non-genesis block of an epoch below first_unstable_epoch
\* is about to be appended (lines 90-99), an accumulator is open for the
\* epoch of that block.
C1_AccumulatorOpen ==
    (/\ pc = "route"
     /\ CurEpoch < first_unstable_epoch
     /\ chain[cur].kind # "Genesis")
    => /\ cur_epoch_state # None
       /\ cur_epoch_state[1].epoch_id = CurEpoch

\* C2: after a session that ran to completion, every block up to the tip
\* whose epoch is below the first_unstable_epoch of the session is inside
\* the finalized pack that EPOCH_<its epoch> names, and is no loose block.
C2_StableBlocksPacked ==
    pc = "done" =>
        \A b \in 1..tip :
            chain[b].epoch < first_unstable_epoch =>
                /\ b \notin blobs
                /\ tag_EPOCH[chain[b].epoch] \in packs
                /\ b \in Range(tag_EPOCH[chain[b].epoch])

\* C3: a pack finalized for an epoch, also for an epoch whose accumulator
\* was lost when an earlier session was terminated, holds exactly the blocks
\* of the epoch in chain order, which is the pack of a session that was
\* never interrupted.
C3_RepackedIdentical ==
    \A p \in packs : p # NoPack /\ p = EpochBlocks(PackEpoch(p))

\* C3 witness: the accumulator of an epoch was lost with a terminated
\* session, and EPOCH_<n> now names the pack of a later session.
C3_Witness ==
    /\ hist.abandoned # None
    /\ tag_EPOCH[hist.abandoned[1]] # NoPack
    /\ tag_EPOCH[hist.abandoned[1]] \in packs

\* C4: HEAD never names a block at or after the last block of an epoch whose
\* pack is finalized while EPOCH_<n> is unset.
C4_EpochTagBeforeHead ==
    \A n \in Epochs :
        (/\ EpochBlocks(n) \in packs
         /\ tag_HEAD # NoHash
         /\ tag_HEAD >= LastBlockOfEpoch(n))
        => tag_EPOCH[n] # NoPack

\* C5: an EPOCH_<n> tag that is set names a pack of epoch n whose pack file
\* is finalized and whose index is at its permanent path.
C5_EpochTagNamesFinalizedPack ==
    \A n \in Epochs :
        tag_EPOCH[n] # NoPack =>
            /\ tag_EPOCH[n] \in packs
            /\ tag_EPOCH[n] \in indexes
            /\ tag_EPOCH[n] = EpochBlocks(n)

\* C5 witness: the tag of an epoch was just written by the flush.
C5_Witness ==
    /\ pc = "epoch_create"
    /\ tag_EPOCH[cur_epoch_state[1].epoch_id] = cur_epoch_state[1].writer

\* C6: a session that follows a completed session while the tip is the same
\* delivers no block, finalizes no pack, writes no loose block and no tag,
\* and leaves HEAD as it was.
C6_RerunDoesNothing ==
    (hist.rerun /\ pc \in Running \cup {"done"}) =>
        /\ hist.delivered = 0
        /\ hist.finalizations = 0
        /\ hist.blobWrites = 0
        /\ hist.tagWrites = 0
        /\ tag_HEAD = hist.headAtStart

\* the end-to-end scenario has run to completion: the store was empty, the
\* tip is the third block into epoch 3 (slot 3) and k is 10
E2EDone ==
    /\ pc = "done"
    /\ hist.startEmpty
    /\ chain = E2EChain
    /\ k = 10
    /\ chain[tip] = Normal(3, 3)

\* the blocks of epoch n are all loose blocks
EpochLoose(n) == Range(EpochBlocks(n)) \subseteq blobs
\* epoch n has a finalized pack that EPOCH_<n> names
EpochPacked(n) ==
    /\ EpochBlocks(n) \in packs
    /\ tag_EPOCH[n] = EpochBlocks(n)

\* C7 as stated: after the end-to-end scenario the epochs 0, 1 and 2 are
\* packed with EPOCH_0, EPOCH_1 and EPOCH_2 set, the blocks of epoch 3 are
\* loose and HEAD is the last block of epoch 3.
C7_AsStated ==
    E2EDone =>
        /\ EpochPacked(0) /\ EpochPacked(1) /\ EpochPacked(2)
        /\ EpochLoose(3)
        /\ tag_HEAD = LastBlockOfEpoch(3)

\* C7 as amended: after the end-to-end scenario the epochs 0 and 1 are packed
\* with EPOCH_0 and EPOCH_1 set, the blocks of the epochs 2 and 3 are loose
\* and in no pack, EPOCH_2 is unset, and HEAD is the last block of epoch 3.
C7_Amended ==
    E2EDone =>
        /\ EpochPacked(0) /\ EpochPacked(1)
        /\ EpochLoose(2) /\ EpochLoose(3)
        /\ tag_EPOCH[2] = NoPack /\ tag_EPOCH[3] = NoPack
        /\ \A p \in packs : PackEpoch(p) \in {0, 1}
        /\ tag_HEAD = LastBlockOfEpoch(3)

\* C7 witness: the end-to-end scenario has run to completion.
C7_Witness == E2EDone

\* C8: first_unstable_epoch is tip.epoch - 1 when the date of the tip is a
\* genesis marker or a slot <= k, and tip.epoch when the slot is > k.
C8_ClassifierFormula ==
    pc \in Running \cup {"done"} =>
        first_unstable_epoch =
            IF chain[tip].kind = "Genesis" \/ chain[tip].slotid <= k
            THEN chain[tip].epoch - 1
            ELSE chain[tip].epoch

\* C9: a session that starts while HEAD names a block that is not in the
\* store logs the warning and fetches from the genesis block, inclusive, as
\* a session that starts without a HEAD tag does.
C9_StaleHeadFallsBack ==
    [][(/\ pc \in Over
        /\ pc' \in Running \cup {"done"}
        /\ tag_HEAD # NoHash
        /\ tag_HEAD \notin blobs
        /\ \A p \in packs \cap indexes : tag_HEAD \notin Range(p))
       => /\ warned'
          /\ our_tip' = <<GenesisBlock, TRUE>>
          /\ cur' = GenesisBlock
          /\ pc' = "route"]_vars

\* C9 witness: a session runs that was started on a stale HEAD.
C9_Witness ==
    /\ pc \in Running
    /\ warned
    /\ hist.headAtStart # NoHash

\* C10: while the callback runs on a block whose epoch is at or above
\* first_unstable_epoch, no accumulator is opened, replaced or appended to,
\* and the routing of the block writes it as a loose block.
C10_UnstableBlocksLoose ==
    [][(/\ InCallback
        /\ CurEpoch >= first_unstable_epoch
        /\ pc' \in Running \cup {"done"})
       => /\ cur_epoch_state' = cur_epoch_state
          /\ pc = "route" => blobs' = blobs \cup {cur}]_vars

\* C10 witness: a block of an unstable epoch was written as a loose block
\* while an accumulator was there.
C10_Witness ==
    /\ cur_epoch_state # None
    /\ last_block # NoHash
    /\ chain[last_block].epoch >= first_unstable_epoch
    /\ last_block \in blobs

\* C11: when the stream ends, HEAD is written with the last block delivered
\* if a block was delivered, whatever the branch that block took, and no tag
\* is written if no block was delivered; the end of the stream finalizes no
\* pack, writes no index and no EPOCH_<n>.
C11_StreamEndWritesHead ==
    [][(pc = "final" /\ pc' = "done")
       => /\ hist.delivered > 0 =>
                /\ cur = tip
                /\ tag_HEAD' = cur
          /\ hist.delivered = 0 =>
                /\ tag_HEAD' = tag_HEAD
                /\ hist'.tagWrites = hist.tagWrites
          /\ packs' = packs
          /\ indexes' = indexes
          /\ tag_EPOCH' = tag_EPOCH
          /\ hist'.finalizations = hist.finalizations]_vars

\* C11 witness: a stream that delivered blocks has ended while an accumulator
\* was there, and HEAD names the last block delivered.
C11_Witness ==
    /\ pc = "done"
    /\ hist.delivered > 0
    /\ cur_epoch_state # None
    /\ cur_epoch_state[1].writer \notin packs
    /\ tag_HEAD = cur

\* C11 witness of the other case: a stream that delivered no block has ended
\* and HEAD is what it was.
C11_NothingDelivered ==
    /\ pc = "done"
    /\ hist.delivered = 0
    /\ hist.tagWrites = 0
    /\ tag_HEAD = hist.headAtStart

\* the first position of ps whose peer has the transport kind, 0 if none
FirstOfKind(ps, kind) ==
    IF \E i \in 1..Len(ps) : ps[i].kind = kind
    THEN CHOOSE i \in 1..Len(ps) :
            /\ ps[i].kind = kind
            /\ \A j \in 1..(i - 1) : ps[j].kind # kind
    ELSE 0

\* a step of the selection for the transport kind returned the first peer
\* of that transport, or failed; it failed if no peer has the transport
SelectedFirst(kind) ==
    /\ FirstOfKind(peers, kind) = 0 => (pc' = "panicked" /\ net' = None)
    /\ net' # None =>
          /\ FirstOfKind(peers, kind) # 0
          /\ net'[1].name = peers[FirstOfKind(peers, kind)].name
          /\ net'[1].kind = kind
          /\ pc' = "idle"
    /\ net' = None => pc' = "panicked"

\* C12: get_http_peer returns the first peer of cfg.peers that is http and
\* get_native_peer the first that is native, never a later one, and both
\* panic when no configured peer has the transport.
C12_FirstMatchingPeer ==
    [][/\ get_http_peer => SelectedFirst("http")
       /\ get_native_peer => SelectedFirst("native")]_vars

\* C12 witness: a peer was selected that is not the first of the list and
\* is followed by a peer of the same transport.
C12_Witness ==
    /\ net # None
    /\ \E i \in 2..Len(peers) :
          /\ net[1].name = peers[i].name
          /\ \E j \in (i + 1)..Len(peers) : peers[j].kind = net[1].kind

\* C12 witness of the failure: no configured peer has a transport, and the
\* selection has panicked.
C12_NoPeerPanics ==
    /\ pc = "panicked"
    /\ net = None
    /\ \E kind \in Transports : \A i \in 1..Len(peers) : peers[i].kind # kind

\* a sequence without a value that occurs twice
NoDuplicates(seq) ==
    \A i, j \in 1..Len(seq) : seq[i] = seq[j] => i = j

\* C13: after a flush no accumulator is open until a genesis block of a
\* stable epoch opens one: an accumulator that is there while a non-genesis
\* block is processed is the one of the epoch of that block, a flush never
\* starts on an accumulator the session has finalized, and no session
\* finalizes an accumulator twice or writes an EPOCH_<n> twice.
C13_FlushedOnce ==
    /\ (InCallback /\ cur_epoch_state # None /\ chain[cur].kind # "Genesis")
          => cur_epoch_state[1].epoch_id = CurEpoch
    /\ pc = "finalize" =>
          \A i \in 1..Len(hist.flushed) :
              hist.flushed[i] # cur_epoch_state[1].epoch_id
    /\ NoDuplicates(hist.flushed)
    /\ NoDuplicates(hist.tagged)

\* C13, the second flush alone: no session writes an EPOCH_<n> twice
C13_TaggedOnce == NoDuplicates(hist.tagged)

\* C14: the checkpoint of a flush of the accumulator of epoch n writes HEAD
\* with the last block of epoch n, and the block delivered right before the
\* genesis block the callback runs on is a block of epoch n.
C14_CheckpointNamesEpochEnd ==
    [][(pc = "checkpoint" /\ pc' = "route")
       => /\ tag_HEAD' = LastBlockOfEpoch(cur_epoch_state[1].epoch_id)
          /\ chain[cur - 1].epoch = cur_epoch_state[1].epoch_id]_vars

\* HEAD names a block of the store: a loose block or a block of a pack
\* whose index is permanent
HeadStored ==
    /\ tag_HEAD # NoHash
    /\ \/ tag_HEAD \in blobs
       \/ \E p \in packs \cap indexes : tag_HEAD \in Range(p)

\* C15: a session that starts without a HEAD tag fetches from the genesis
\* block of epoch_start, inclusive, and the first block delivered is that
\* genesis block; a session that starts with a HEAD that names a stored
\* block fetches after that block, so that every block it delivers is
\* after HEAD.
C15_StartBound ==
    /\ [][(pc \in Over /\ pc' \in Running \cup {"done"})
          => /\ tag_HEAD = NoHash =>
                  /\ our_tip' = <<GenesisBlock, TRUE>>
                  /\ chain[our_tip'[1]] = Genesis(epoch_start)
                  /\ cur' = GenesisBlock
                  /\ hist'.delivered = 1
             /\ HeadStored =>
                  /\ our_tip' = <<tag_HEAD, FALSE>>
                  /\ cur' # tag_HEAD
                  /\ hist'.delivered = 1 => cur' = tag_HEAD + 1]_vars
    /\ []((/\ pc \in Running \cup {"done"}
           /\ hist.headAtStart # NoHash
           /\ ~warned
           /\ hist.delivered > 0)
          => cur > hist.headAtStart)

\* C15 witness: a session that resumed after a stored HEAD is delivering
\* blocks.
C15_Witness ==
    /\ pc \in Running
    /\ hist.headAtStart # NoHash
    /\ ~warned
    /\ our_tip = <<hist.headAtStart, FALSE>>
    /\ hist.delivered > 1

\* C15 witness of a session from scratch: the genesis block is delivered.
C15_FromScratch ==
    /\ pc = "route"
    /\ hist.headAtStart = NoHash
    /\ hist.delivered = 1
    /\ cur = GenesisBlock

\* C16: a step that ends a session with a failure (get_tip, the decoding of
\* the HEAD block, the index, the reference index, the write of a loose
\* block) writes nothing: the store is as it was, so HEAD is the HEAD of the
\* start of the session or a checkpoint before the block the callback was
\* running on; the memory of the session is gone, and the step that follows
\* is the start of a new session, which processes no block of the old one.
C16_FailureAborts ==
    [][/\ pc' = "panicked" =>
            /\ storage' = storage
            /\ cur_epoch_state' = None
            /\ last_block' = NoHash
            /\ cur' = 0
            /\ pc \in Running =>
                  \/ tag_HEAD' = hist.headAtStart
                  \/ tag_HEAD' < cur
       /\ (pc = "panicked" /\ pc' # "panicked") =>
            /\ storage' = storage
            /\ our_tip' \in {<<GenesisBlock, TRUE>>, <<tag_HEAD, FALSE>>}
            /\ hist'.headAtStart = tag_HEAD
            /\ hist'.blobWrites = 0
            /\ hist'.flushed = <<>>]_vars

\* C16 witness: a session has failed in the middle of the stream, after it
\* wrote loose blocks and a checkpoint.
C16_Witness ==
    /\ pc = "panicked"
    /\ hist.blobWrites > 0
    /\ hist.finalizations > 0
    /\ tag_HEAD # NoHash
    /\ tag_HEAD # hist.headAtStart

\* C17: at every state a HEAD tag that is set names a block of the store: a
\* loose block, or a block of a finalized pack whose index is permanent;
\* never a block that is in an accumulator only.
C17_HeadNamesStoredBlock ==
    tag_HEAD # NoHash =>
        \/ tag_HEAD \in blobs
        \/ \E p \in packs : p \in indexes /\ tag_HEAD \in Range(p)

\* C18: in every session tip.epoch - offset does not underflow:
\* first_unstable_epoch is at most the epoch of the tip, so that the tip is
\* a block of an unstable epoch, and after a session that delivered blocks
\* and ran to completion the tip is a loose block.
C18_NoUnderflow ==
    pc \in Running \cup {"done"} =>
        /\ first_unstable_epoch <= chain[tip].epoch
        /\ first_unstable_epoch >= chain[tip].epoch - 1
        /\ (pc = "done" /\ hist.delivered > 0) => tip \in blobs

\* what a step of a running session adds to the store is of an epoch below
\* first_unstable_epoch
PublishesStableOnly ==
    /\ \A n \in Epochs :
          (\/ tag_EPOCH'[n] # tag_EPOCH[n]
           \/ epochs'[n] # epochs[n]
           \/ n \in refpacks' \ refpacks)
          => n < first_unstable_epoch
    /\ \A p \in (packs' \ packs) \cup (indexes' \ indexes) :
          \A i \in 1..Len(p) : chain[p[i]].epoch < first_unstable_epoch

\* C19: a session finalizes a pack, writes an index, writes EPOCH_<n> and
\* registers an epoch only for epochs below its first_unstable_epoch.
C19_OnlyStableEpochsPublished ==
    /\ [][(pc \in Running) => PublishesStableOnly]_vars
    /\ [](pc \in Running \cup {"done"} =>
            /\ \A i \in 1..Len(hist.tagged) :
                  hist.tagged[i] < first_unstable_epoch
            /\ \A i \in 1..Len(hist.flushed) :
                  hist.flushed[i] < first_unstable_epoch)

\* C19 witness: a session that wrote an EPOCH_<n> tag has also delivered the
\* blocks of its unstable epochs and has run to completion.
C19_Witness ==
    /\ pc = "done"
    /\ hist.tagged # <<>>
    /\ first_unstable_epoch <= chain[tip].epoch
    /\ tip \in blobs
    /\ \A n \in Epochs : n >= first_unstable_epoch => tag_EPOCH[n] = NoPack

\* a step changes a tag
TagWritten == tag_HEAD' # tag_HEAD \/ tag_EPOCH' # tag_EPOCH

\* C20: a step of the callback on a non-genesis block changes no tag, and a
\* tag changes only in a flush, while the callback runs on a genesis block,
\* or after the stream.
C20_TagsOnlyInFlush ==
    [][/\ (InCallback /\ chain[cur].kind # "Genesis") => ~TagWritten
       /\ TagWritten =>
            \/ pc = "final"
            \/ /\ pc \in {"epochtag", "checkpoint"}
               /\ chain[cur].kind = "Genesis"]_vars

\* C20 witness: the callback runs on a non-genesis block after the session
\* wrote a checkpoint and processed blocks after it; HEAD is that checkpoint.
C20_Witness ==
    /\ pc = "route"
    /\ chain[cur].kind # "Genesis"
    /\ hist.tagWrites > 0
    /\ tag_HEAD # NoHash
    /\ last_block > tag_HEAD
    /\ chain[last_block].kind # "Genesis"

====
